---- MODULE Spec2Model ----
\* In-memory task store of todo_backend (app/routes/tasks.py): the module-level
\* store _TASKS / _NEXT_ID, the two marshmallow input schemas and the
\* handlers of /api/tasks and /api/tasks/<id>.
EXTENDS Integers, Sequences, FiniteSets, TLC

\* ---------------------------------------------------------------- bounds
\* Largest id the counter hands out (post is disabled once it is passed).
MaxId == 2
\* Number of concurrently running create handlers (SpecConc).
NumProcs == 3

\* ---------------------------------------------------------------- strings
\* A string is a sequence of characters; " " is whitespace, "a" is not.
\* The titles requests carry: empty, whitespace-only, one with whitespace on
\* both sides and one that strip() leaves alone.
Str == {<<>>, <<" ">>, <<" ", "a", " ">>, <<"a", "a">>}

IsSpace(c) == c = " "

RECURSIVE lstrip(_)
lstrip(s) == IF s # <<>> /\ IsSpace(Head(s)) THEN lstrip(Tail(s)) ELSE s

RECURSIVE rstrip(_)
rstrip(s) ==
    IF s # <<>> /\ IsSpace(s[Len(s)]) THEN rstrip(SubSeq(s, 1, Len(s) - 1)) ELSE s

\* str.strip()
strip(s) == rstrip(lstrip(s))

\* ---------------------------------------------------------------- clock
\* datetime.utcnow() in microseconds. isoformat() prints the fraction only when
\* it is not zero; the date, hour and minute are constant over the modelled
\* window and left out of the text, which is "SS[.ffffff]Z".
MicrosPerSec == 1000000

\* The instants at which requests arrive.
Times == {0, 1}

Digit(d) == <<"0", "1", "2", "3", "4", "5", "6", "7", "8", "9">>[d + 1]

\* "%02d"
Digits2(n) == <<Digit((n \div 10) % 10), Digit(n % 10)>>

\* "%06d"
Digits6(n) ==
    <<Digit((n \div 100000) % 10), Digit((n \div 10000) % 10), Digit((n \div 1000) % 10),
      Digit((n \div 100) % 10), Digit((n \div 10) % 10), Digit(n % 10)>>

isoformat(t) ==
    LET sec == t \div MicrosPerSec
        us  == t % MicrosPerSec
    IN  Digits2(sec) \o (IF us = 0 THEN <<>> ELSE <<".">> \o Digits6(us))

_now_iso(t) == isoformat(t) \o <<"Z">>

\* ---------------------------------------------------------------- requests
Keys == {"title", "completed"}

\* A JSON request body: the keys it carries, which of them are null, and the
\* values of the others (normalised to "" / FALSE where the key carries none).
\* The bodies requests carry: every choice of keys and values without a null,
\* and the bodies whose keys are all null.
Bodies ==
    {b \in [keys: SUBSET Keys, nulls: SUBSET Keys, title: Str, completed: BOOLEAN] :
        /\ b.nulls \in {{}, b.keys}
        /\ ("title" \notin b.keys \/ "title" \in b.nulls) => b.title = <<>>
        /\ ("completed" \notin b.keys \/ "completed" \in b.nulls) => b.completed = FALSE}

EmptyBody == [keys |-> {}, nulls |-> {}, title |-> <<>>, completed |-> FALSE]

HTTP_OK == 200
HTTP_CREATED == 201
HTTP_NO_CONTENT == 204
HTTP_BAD_REQUEST == 400
HTTP_NOT_FOUND == 404
\* flask-smorest answers a body the schema rejects with 422
HTTP_UNPROCESSABLE == 422

\* The error kinds of the API: InvalidInput covers both rejections of a body.
Outcome(status) ==
    CASE status \in {HTTP_OK, HTTP_CREATED, HTTP_NO_CONTENT} -> "Success"
      [] status \in {HTTP_BAD_REQUEST, HTTP_UNPROCESSABLE} -> "InvalidInput"
      [] status = HTTP_NOT_FOUND -> "NotFound"

\* TaskCreateSchema.validate_title: raises unless this holds
TaskCreateSchema_validate_title_nostrip(value) == ~(value = <<>>)
TaskCreateSchema_validate_title(value) == ~(value = <<>> \/ strip(value) = <<>>)

\* TaskUpdateSchema.validate_title (marshmallow never passes it None)
TaskUpdateSchema_validate_title_any(value) == TRUE
TaskUpdateSchema_validate_title(value) == ~(strip(value) = <<>>)

\* TaskCreateSchema().load: title is required, no field may be null, completed
\* defaults to False.
TaskCreateSchema_load(body) ==
    IF /\ "title" \in body.keys
       /\ body.nulls = {}
       /\ TaskCreateSchema_validate_title(body.title)
    THEN [ok |-> TRUE,
          payload |-> [body EXCEPT !.keys = body.keys \cup {"completed"}]]
    ELSE [ok |-> FALSE, payload |-> EmptyBody]

\* TaskUpdateSchema().load: both fields optional, no field may be null.
TaskUpdateSchema_load(body) ==
    IF /\ body.nulls = {}
       /\ "title" \in body.keys => TaskUpdateSchema_validate_title(body.title)
    THEN [ok |-> TRUE, payload |-> body]
    ELSE [ok |-> FALSE, payload |-> EmptyBody]

\* `"k" in payload and payload["k"] is not None`
Has(payload, k) == k \in payload.keys /\ k \notin payload.nulls

\* ---------------------------------------------------------------- state
VARIABLES
    _TASKS,       \* the store: id -> task record
    _NEXT_ID,     \* the id counter
    clock,        \* datetime.utcnow(), microseconds
    response,     \* the last request served: its operation, id, body keys and status
    created_ids,  \* history: the ids returned by successful creates, in order
    deleted_ids,  \* history: the ids whose delete succeeded
    pc,           \* SpecConc: position of each create handler
    task_id_of,   \* SpecConc: each create handler's local task_id
    loaded        \* SpecConc: the counter value `_NEXT_ID += 1` has read

vars ==
    <<_TASKS, _NEXT_ID, clock, response, created_ids, deleted_ids, pc, task_id_of, loaded>>

Ids == 1..MaxId
Procs == 1..NumProcs

\* dict assignment d[k] = v
Put_item(d, k, v) == [i \in DOMAIN d \cup {k} |-> IF i = k THEN v ELSE d[i]]
\* del d[k]
Del_item(d, k) == [i \in DOMAIN d \ {k} |-> d[i]]

NoResponse == [op |-> "none", task_id |-> 0, status |-> 0, keys |-> {}]

Init ==
    /\ _TASKS = <<>>
    /\ _NEXT_ID = 1
    /\ clock = 0
    /\ response = NoResponse
    /\ created_ids = <<>>
    /\ deleted_ids = {}
    /\ pc = [p \in Procs |-> "idle"]
    /\ task_id_of = [p \in Procs |-> 0]
    /\ loaded = [p \in Procs |-> 0]

\* ---------------------------------------------------------------- handlers
\* A handler is a function of the module globals (store.tasks is _TASKS,
\* store.next_id is _NEXT_ID) and its arguments; it gives the status it answers
\* with and the globals it leaves.

Answer(status, store) == [status |-> status, store |-> store]

\* `_NEXT_ID += 1`
increment_stuck(n) == n
increment(n) == n + 1

\* the record post builds
new_task(task_id, payload, now) ==
    [id |-> task_id,
     title |-> strip(payload.title),
     completed |-> payload.completed,
     created_at |-> _now_iso(now),
     updated_at |-> _now_iso(now)]

\* TasksCollection.post, given the loaded payload
post(store, payload, now) ==
    LET task_id == store.next_id
    IN  Answer(HTTP_CREATED,
               [tasks |-> Put_item(store.tasks, task_id, new_task(task_id, payload, now)),
                next_id |-> increment(store.next_id)])

\* TaskResource._get_or_404 finds the task
found(store, task_id) == task_id \in DOMAIN store.tasks

\* TaskResource.get
get(store, task_id) ==
    IF ~found(store, task_id) THEN Answer(HTTP_NOT_FOUND, store)
    ELSE Answer(HTTP_OK, store)

\* `not payload`
is_empty_never(payload) == FALSE
is_empty(payload) == payload.keys = {}

\* the two guarded assignments of put and patch
apply_fields(task, payload) ==
    LET t1 == IF Has(payload, "title")
              THEN [task EXCEPT !.title = strip(payload.title)] ELSE task
    IN  IF Has(payload, "completed")
        THEN [t1 EXCEPT !.completed = payload.completed] ELSE t1

\* task["updated_at"] = _now_iso()
touch_created(task, now) == [task EXCEPT !.created_at = _now_iso(now)]
touch_both(task, now) ==
    [task EXCEPT !.created_at = _now_iso(now), !.updated_at = _now_iso(now)]
touch(task, now) == [task EXCEPT !.updated_at = _now_iso(now)]

\* TaskResource.put, given the loaded payload
put(store, payload, task_id, now) ==
    IF is_empty(payload) THEN Answer(HTTP_BAD_REQUEST, store)
    ELSE IF ~found(store, task_id) THEN Answer(HTTP_NOT_FOUND, store)
    ELSE
        LET updated == Has(payload, "title") \/ Has(payload, "completed")
            task == apply_fields(store.tasks[task_id], payload)
        IN  IF ~updated THEN Answer(HTTP_BAD_REQUEST, store)
            ELSE Answer(HTTP_OK,
                        [store EXCEPT !.tasks[task_id] = touch(task, now)])

\* TaskResource.patch, given the loaded payload
patch(store, payload, task_id, now) ==
    IF ~found(store, task_id) THEN Answer(HTTP_NOT_FOUND, store)
    ELSE IF is_empty(payload) THEN Answer(HTTP_BAD_REQUEST, store)
    ELSE IF Has(payload, "title") /\ strip(payload.title) = <<>>
    THEN Answer(HTTP_BAD_REQUEST, store)
    ELSE
        LET task == apply_fields(store.tasks[task_id], payload)
        IN  Answer(HTTP_OK, [store EXCEPT !.tasks[task_id] = touch(task, now)])

\* TaskResource.delete
delete(store, task_id) ==
    IF ~found(store, task_id) THEN Answer(HTTP_NOT_FOUND, store)
    ELSE Answer(HTTP_NO_CONTENT, [store EXCEPT !.tasks = Del_item(store.tasks, task_id)])

\* A whole POST request: @blp.arguments(TaskCreateSchema), then the handler.
PostRequest(store, body, now) ==
    LET l == TaskCreateSchema_load(body)
    IN  IF ~l.ok THEN Answer(HTTP_UNPROCESSABLE, store) ELSE post(store, l.payload, now)

\* A whole PUT request: @blp.arguments(TaskUpdateSchema), then the handler.
PutRequest(store, body, task_id, now) ==
    LET l == TaskUpdateSchema_load(body)
    IN  IF ~l.ok THEN Answer(HTTP_UNPROCESSABLE, store)
        ELSE put(store, l.payload, task_id, now)

\* A whole PATCH request.
PatchRequest(store, body, task_id, now) ==
    LET l == TaskUpdateSchema_load(body)
    IN  IF ~l.ok THEN Answer(HTTP_UNPROCESSABLE, store)
        ELSE patch(store, l.payload, task_id, now)

\* ---------------------------------------------------------------- actions
\* The module globals as the handlers see them.
Store == [tasks |-> _TASKS, next_id |-> _NEXT_ID]

concVars == <<pc, task_id_of, loaded>>

Served(op, task_id, keys, status) ==
    [op |-> op, task_id |-> task_id, status |-> status, keys |-> keys]

\* Time passes between requests.
Tick ==
    /\ \E t \in Times : t > clock /\ clock' = t
    /\ UNCHANGED <<_TASKS, _NEXT_ID, response, created_ids, deleted_ids, concVars>>

\* GET /api/tasks
List ==
    /\ response' = Served("list", 0, {}, HTTP_OK)
    /\ UNCHANGED <<_TASKS, _NEXT_ID, clock, created_ids, deleted_ids, concVars>>

\* POST /api/tasks
Post ==
    \E body \in Bodies :
        LET r == PostRequest(Store, body, clock)
            ok == r.status = HTTP_CREATED
        IN  /\ _NEXT_ID <= MaxId
            /\ _TASKS' = r.store.tasks
            /\ _NEXT_ID' = r.store.next_id
            /\ response' = Served("post", IF ok THEN _NEXT_ID ELSE 0, body.keys, r.status)
            /\ created_ids' = IF ok THEN Append(created_ids, _NEXT_ID) ELSE created_ids
            /\ UNCHANGED <<clock, deleted_ids, concVars>>

\* GET /api/tasks/<id>
Get ==
    \E task_id \in Ids :
        LET r == get(Store, task_id)
        IN  /\ response' = Served("get", task_id, {}, r.status)
            /\ UNCHANGED <<_TASKS, _NEXT_ID, clock, created_ids, deleted_ids, concVars>>

\* PUT /api/tasks/<id>
Put ==
    \E task_id \in Ids, body \in Bodies :
        LET r == PutRequest(Store, body, task_id, clock)
        IN  /\ _TASKS' = r.store.tasks
            /\ _NEXT_ID' = r.store.next_id
            /\ response' = Served("put", task_id, body.keys, r.status)
            /\ UNCHANGED <<clock, created_ids, deleted_ids, concVars>>

\* PATCH /api/tasks/<id>
Patch ==
    \E task_id \in Ids, body \in Bodies :
        LET r == PatchRequest(Store, body, task_id, clock)
        IN  /\ _TASKS' = r.store.tasks
            /\ _NEXT_ID' = r.store.next_id
            /\ response' = Served("patch", task_id, body.keys, r.status)
            /\ UNCHANGED <<clock, created_ids, deleted_ids, concVars>>

\* DELETE /api/tasks/<id>
Delete ==
    \E task_id \in Ids :
        LET r == delete(Store, task_id)
        IN  /\ _TASKS' = r.store.tasks
            /\ _NEXT_ID' = r.store.next_id
            /\ response' = Served("delete", task_id, {}, r.status)
            /\ deleted_ids' = IF r.status = HTTP_NO_CONTENT
                              THEN deleted_ids \cup {task_id} ELSE deleted_ids
            /\ UNCHANGED <<clock, created_ids, concVars>>

Next == Tick \/ List \/ Post \/ Get \/ Put \/ Patch \/ Delete

\* Requests served one at a time.
Spec == Init /\ [][Next]_vars

\* ------------------------------------------------- concurrent creates
\* Flask's server runs each request on its own thread and post takes no lock:
\* the threads interleave between the reads and writes of the globals.

\* task_id = _NEXT_ID
ReadId(p) ==
    /\ pc[p] = "idle"
    /\ _NEXT_ID <= MaxId
    /\ task_id_of' = [task_id_of EXCEPT ![p] = _NEXT_ID]
    /\ pc' = [pc EXCEPT ![p] = "load"]
    /\ UNCHANGED <<_TASKS, _NEXT_ID, clock, response, created_ids, deleted_ids, loaded>>

\* _NEXT_ID += 1: the read of the global
LoadCounter(p) ==
    /\ pc[p] = "load"
    /\ loaded' = [loaded EXCEPT ![p] = _NEXT_ID]
    /\ pc' = [pc EXCEPT ![p] = "store"]
    /\ UNCHANGED <<_TASKS, _NEXT_ID, clock, response, created_ids, deleted_ids, task_id_of>>

\* _NEXT_ID += 1: the write of the global
StoreCounter(p) ==
    /\ pc[p] = "store"
    /\ _NEXT_ID' = increment(loaded[p])
    /\ pc' = [pc EXCEPT ![p] = "insert"]
    /\ UNCHANGED <<_TASKS, clock, response, created_ids, deleted_ids, task_id_of, loaded>>

\* _TASKS[task_id] = task; return task, 201
Insert(p) ==
    /\ pc[p] = "insert"
    /\ \E body \in Bodies :
        LET l == TaskCreateSchema_load(body)
        IN  /\ l.ok
            /\ _TASKS' = Put_item(_TASKS, task_id_of[p],
                                  new_task(task_id_of[p], l.payload, clock))
            /\ response' = Served("post", task_id_of[p], body.keys, HTTP_CREATED)
    /\ created_ids' = Append(created_ids, task_id_of[p])
    /\ pc' = [pc EXCEPT ![p] = "done"]
    /\ UNCHANGED <<_NEXT_ID, clock, deleted_ids, task_id_of, loaded>>

NextConc == \E p \in Procs : ReadId(p) \/ LoadCounter(p) \/ StoreCounter(p) \/ Insert(p)

SpecConc == Init /\ [][NextConc]_vars

\* ---------------------------------------------------------------- properties
Updates == {"put", "patch"}

\* What an update request answers and leaves, by method.
UpdateRequest(op, store, body, task_id, now) ==
    IF op = "put" THEN PutRequest(store, body, task_id, now)
    ELSE PatchRequest(store, body, task_id, now)

\* The instant a timestamp text denotes, in microseconds.
DigitVal(c) == CHOOSE d \in 0..9 : Digit(d) = c

RECURSIVE Number(_)
Number(s) == IF s = <<>> THEN 0 ELSE 10 * Number(SubSeq(s, 1, Len(s) - 1)) + DigitVal(s[Len(s)])

ParseIso(s) ==
    Number(SubSeq(s, 1, 2)) * MicrosPerSec
        + (IF s[3] = "." THEN Number(SubSeq(s, 4, 9)) ELSE 0)

Blank(title) == \A i \in DOMAIN title : IsSpace(title[i])

\* C1: sequential requests: every successful create returns an id strictly
\* greater than the id of every earlier successful create, deleted or not.
C1_IdsStrictlyIncrease ==
    \A i, j \in DOMAIN created_ids : i < j => created_ids[i] < created_ids[j]

\* C1 witness: a create has succeeded after an earlier task was created and deleted.
C1_Witness ==
    /\ Len(created_ids) >= 2
    /\ created_ids[1] \in deleted_ids
    /\ response.op = "post" /\ response.status = HTTP_CREATED
    /\ response.task_id = created_ids[Len(created_ids)]

\* C2 (as claimed): in every store state, for every id and every body, PUT and
\* PATCH answer with the same outcome and leave the same store.
C2_PutPatchIdentical ==
    \A task_id \in Ids, body \in Bodies :
        LET a == PutRequest(Store, body, task_id, clock)
            b == PatchRequest(Store, body, task_id, clock)
        IN  Outcome(a.status) = Outcome(b.status) /\ a.store = b.store

\* C3 (as claimed): an update of an id that is not stored answers NotFound for
\* every body that passes the schema, the empty one included, and leaves the store.
C3_AbsentIdNotFound ==
    \A op \in Updates, task_id \in Ids \ DOMAIN _TASKS, body \in Bodies :
        TaskUpdateSchema_load(body).ok =>
            LET r == UpdateRequest(op, Store, body, task_id, clock)
            IN  Outcome(r.status) = "NotFound" /\ r.store = Store

\* C4: a create whose title is missing, empty or whitespace-only answers
\* InvalidInput and leaves the stored tasks (and the counter) as they were.
C4_BadTitleRejected ==
    \A body \in Bodies :
        ("title" \notin body.keys \/ (body.nulls = {} /\ Blank(body.title))) =>
            LET r == PostRequest(Store, body, clock)
            IN  Outcome(r.status) = "InvalidInput" /\ r.store = Store

\* C4 witness: a create without a title has been refused with tasks in the store.
C4_Witness ==
    /\ response.op = "post" /\ "title" \notin response.keys
    /\ Outcome(response.status) = "InvalidInput"
    /\ DOMAIN _TASKS # {}

\* C5: an update of a stored task with an empty body answers InvalidInput and
\* leaves every field of the task, updated_at included, as it was.
C5_EmptyBodyRejected ==
    \A op \in Updates, task_id \in DOMAIN _TASKS :
        LET r == UpdateRequest(op, Store, EmptyBody, task_id, clock)
        IN  /\ Outcome(r.status) = "InvalidInput"
            /\ r.store.tasks[task_id] = _TASKS[task_id]
            /\ r.store = Store

\* C5 witness: a PATCH with an empty body has been refused for a stored task at an
\* instant later than its updated_at.
C5_Witness ==
    /\ response.op = "patch" /\ response.keys = {}
    /\ response.status = HTTP_BAD_REQUEST
    /\ response.task_id \in DOMAIN _TASKS
    /\ ParseIso(_TASKS[response.task_id].updated_at) < clock

\* C6: a successful update of a stored task whose body carries only completed
\* changes only that task's completed and updated_at; its id, title and
\* created_at, every other task and the counter stay.
C6_CompletedOnlyFrame ==
    \A op \in Updates, task_id \in DOMAIN _TASKS, c \in BOOLEAN :
        LET body == [EmptyBody EXCEPT !.keys = {"completed"}, !.completed = c]
            r == UpdateRequest(op, Store, body, task_id, clock)
        IN  r.status = HTTP_OK =>
                /\ r.store.next_id = _NEXT_ID
                /\ DOMAIN r.store.tasks = DOMAIN _TASKS
                /\ \A i \in DOMAIN _TASKS \ {task_id} : r.store.tasks[i] = _TASKS[i]
                /\ r.store.tasks[task_id].id = _TASKS[task_id].id
                /\ r.store.tasks[task_id].title = _TASKS[task_id].title
                /\ r.store.tasks[task_id].created_at = _TASKS[task_id].created_at
                /\ r.store.tasks[task_id].completed = c

\* C6 witness: a PUT carrying only completed has succeeded on one of two stored
\* tasks, after the clock moved on from its creation.
C6_Witness ==
    /\ response.op = "put" /\ response.keys = {"completed"}
    /\ response.status = HTTP_OK
    /\ Cardinality(DOMAIN _TASKS) >= 2
    /\ _TASKS[response.task_id].completed
    /\ _TASKS[response.task_id].updated_at # _TASKS[response.task_id].created_at

\* C7 (as claimed): once a delete of an id has succeeded, every get, PUT, PATCH
\* and delete of that id answers NotFound.
C7_DeletedStaysNotFound ==
    \A task_id \in deleted_ids :
        /\ Outcome(get(Store, task_id).status) = "NotFound"
        /\ Outcome(delete(Store, task_id).status) = "NotFound"
        /\ \A op \in Updates, body \in Bodies :
               Outcome(UpdateRequest(op, Store, body, task_id, clock).status) = "NotFound"

\* C8: every stored task has a title that is neither empty nor whitespace-only.
C8_TitleNeverBlank ==
    \A task_id \in DOMAIN _TASKS : ~Blank(_TASKS[task_id].title)

\* C8 witness: a PUT has just written the title of a stored task.
C8_Witness ==
    /\ response.op = "put" /\ "title" \in response.keys
    /\ response.status = HTTP_OK
    /\ response.task_id \in DOMAIN _TASKS

\* C9: with a clock that never goes back, every stored task's updated_at denotes
\* an instant no earlier than its created_at.
C9_UpdatedNotBeforeCreated ==
    \A task_id \in DOMAIN _TASKS :
        ParseIso(_TASKS[task_id].updated_at) >= ParseIso(_TASKS[task_id].created_at)

\* C9 witness: an update has moved a task's updated_at past its created_at.
C9_Witness ==
    /\ response.op \in Updates /\ response.status = HTTP_OK
    /\ response.task_id \in DOMAIN _TASKS
    /\ ParseIso(_TASKS[response.task_id].updated_at)
           > ParseIso(_TASKS[response.task_id].created_at)

\* C10 (as claimed): however the steps of concurrent create handlers interleave,
\* no two creates obtain the same id.
C10_ConcurrentIdsUnique ==
    \A p, q \in Procs :
        (p # q /\ pc[p] # "idle" /\ pc[q] # "idle") => task_id_of[p] # task_id_of[q]

====
